---- MODULE Spec2Model ----
(***************************************************************************)
(* Model of the news feed components of TheNarrative.                      *)
(*                                                                         *)
(* src/src/components/NewsFeed.js holds two components:                    *)
(*   - the paginated feed (lines 13-434): articles / story groups,         *)
(*     filters with a page cursor, infinite scroll, view toggle;           *)
(*   - the retrying feed (lines 443-595): news, error, retryCount.         *)
(* Each gets its own specification (Spec, SpecRetry) over its own          *)
(* variables; the other component's variables stay unchanged.              *)
(* SpecLive adds list requests the service never answers, SpecStory the    *)
(* story detail request of the paginated feed, SpecCoverage the            *)
(* comparison view (src/src/components/CompareCoverage.js) over the        *)
(* story detail the remote service computes, and SpecEnrich the            *)
(* enrichment pipeline as the design describes it.                         *)
(* SpecTheme is the theme provider (src/src/ThemeContext.js) around the    *)
(* retrying feed, and SpecSelect is SpecStory with the consumer's latest   *)
(* selection command recorded.                                             *)
(*                                                                         *)
(* React semantics used throughout: a handler or an effect reads the       *)
(* state of the render that created it (its closure); a functional         *)
(* update (setX(prev => ...)) reads the latest state; an async function    *)
(* runs synchronously up to its first await, so a handler together with    *)
(* the re-render and the effects it causes is one atomic step, and the     *)
(* continuation after an awaited request is another.                       *)
(***************************************************************************)
EXTENDS Integers, Sequences, FiniteSets, TLC

\* ---------------------------------------------------------------- bounds
MaxPage == 2
MaxRequests == 3
MaxFilterChanges == 1
MaxItems == 1
MaxNews == 2
MaxDetail == 2
MaxGroup == 4
MaxBatch == 3

\* ------------------------------------------------------------ constants
maxRetries == 3

NULL == "null"
Absent == "absent"
Undefined == "undefined"
NoStatus == 0

VARIABLES
  \* paginated feed (NewsFeed.js:13-434)
  mounted, articles, storyGroups, hasMore, loading, view, filters, stats,
  inflight, statsReq, nextId, changes, lastResp, newestOk,
  \* retrying feed (NewsFeed.js:443-595)
  rMounted, news, newsLoading, error, retryCount, rInflight, log,
  \* list requests the service never answers
  hung,
  \* story detail (NewsFeed.js:18, 157-164, 321-328)
  selectedStory, detail, detailFailed,
  \* comparison view (CompareCoverage.js)
  coverage,
  \* enrichment pipeline
  enriched, progress, calls, feedError,
  \* theme preference (ThemeContext.js)
  themeMounted, theme, storage, systemDark, docTheme,
  \* the consumer's latest selection command
  latestCmd

feedVars == <<mounted, articles, storyGroups, hasMore, loading, view, filters,
              stats, inflight, statsReq, nextId, changes, lastResp, newestOk>>
retryVars == <<rMounted, news, newsLoading, error, retryCount, rInflight, log>>
liveVars == <<hung>>
storyVars == <<selectedStory, detail, detailFailed>>
coverageVars == <<coverage>>
enrichVars == <<enriched, progress, calls, feedError>>
themeVars == <<themeMounted, theme, storage, systemDark, docTheme>>
selectVars == <<latestCmd>>
vars == <<feedVars, retryVars, liveVars, storyVars, coverageVars, enrichVars,
         themeVars, selectVars>>

\* ======================================================= paginated feed

\* useState(null) of selectedStory
NoStory == [none |-> TRUE]

\* if (selectedStory) return <CompareCoverage ...> : the feed, with its
\* sidebar, view toggle and list, is rendered only while no story is selected
FeedShown == selectedStory = NoStory

NonPageFields ==
  {"category", "bias", "sortBy", "sortOrder", "dateFrom", "dateTo", "search"}

\* the values a filter field takes: its initial value and one other
FieldValues(k) ==
  CASE k = "category"  -> {"all", "politics"}
    [] k = "bias"      -> {"all", "left"}
    [] k = "sortBy"    -> {"publishedAt", "title"}
    [] k = "sortOrder" -> {"desc", "asc"}
    [] k = "dateFrom"  -> {"", "2025-01-01"}
    [] k = "dateTo"    -> {"", "2025-12-31"}
    [] k = "search"    -> {"", "election"}

InitialFilters ==
  [category |-> "all", bias |-> "all", sortBy |-> "publishedAt",
   sortOrder |-> "desc", dateFrom |-> "", dateTo |-> "", search |-> "",
   page |-> 1]

InitialStats == "stats0"
StatsValues == {"stats1"}

\* the filter fields other than page
NonPage(f) == [k \in NonPageFields |-> f[k]]

\* ...(cond && {key: value}) : the key is left out when the value is the default
Param(v, dflt) == IF v = dflt THEN Absent ELSE v

\* URLSearchParams of loadArticles
ArticleParams(f, reset) ==
  [page      |-> IF reset THEN 1 ELSE f.page,
   limit     |-> 20,
   category  |-> Param(f.category, "all"),
   bias      |-> Param(f.bias, "all"),
   sortBy    |-> f.sortBy,
   sortOrder |-> f.sortOrder,
   search    |-> Param(f.search, ""),
   dateFrom  |-> Param(f.dateFrom, ""),
   dateTo    |-> Param(f.dateTo, "")]

\* URLSearchParams of loadStoryGroups
StoryParams(f, reset) ==
  [page     |-> IF reset THEN 1 ELSE f.page,
   limit    |-> 10,
   category |-> Param(f.category, "all")]

Endpoint(v) == IF v = "articles" THEN "/api/news" ELSE "/api/news/stories"

\* the request loadArticles / loadStoryGroups sends from a render whose
\* state is view v and filters f
Request(id, v, f, reset) ==
  [id     |-> id,
   kind   |-> v,
   url    |-> Endpoint(v),
   reset  |-> reset,
   params |-> IF v = "articles" THEN ArticleParams(f, reset)
                                ELSE StoryParams(f, reset)]

\* the n items the service returns for request r: each names the query it
\* answers, so that a published list shows which response it came from
Items(r, n) == [i \in 1..n |-> [url |-> r.url, params |-> r.params, idx |-> i]]

NoResp == [id |-> 0, ok |-> FALSE, items |-> <<>>, hasMore |-> FALSE,
           reset |-> FALSE, kind |-> "none", params |-> <<>>]
NoReset == [id |-> 0, kind |-> "none", params |-> <<>>]

\* loadInitialData called from a render with view v and filters f:
\* setLoading(true); setArticles([]); setStoryGroups([]); then the request
\* of loadArticles(true) / loadStoryGroups(true) goes out
loadInitialData(v, f, n) ==
  /\ loading' = TRUE
  /\ articles' = <<>>
  /\ storyGroups' = <<>>
  /\ inflight' = inflight \cup {Request(nextId + i, v, f, TRUE) : i \in 0..(n - 1)}
  /\ nextId' = nextId + n

\* the two effects of the first render: loadInitialData(); loadStats(); and
\* the filter effect, which also runs on mount and finds filters.page === 1
Mount ==
  /\ ~mounted
  /\ mounted' = TRUE
  /\ loadInitialData(view, filters, 2)
  /\ statsReq' = "pending"
  /\ UNCHANGED <<hasMore, view, filters, stats, changes, lastResp, newestOk>>

\* the filter objects the sidebar hands to onFiltersChange: one field
\* changed, the page either carried over ({...filters, k: v}) or set to 1
NewFilters(f) ==
  UNION {{[[f EXCEPT ![k] = v] EXCEPT !.page = p] :
             v \in FieldValues(k) \ {f[k]}, p \in {f.page, 1}} :
         k \in NonPageFields}

FilterBody(nf) ==
  /\ filters' = nf
  /\ changes' = changes + 1
  /\ IF nf.page = 1
       THEN nextId <= MaxRequests /\ loadInitialData(view, nf, 1)
       ELSE UNCHANGED <<loading, articles, storyGroups, inflight, nextId>>
  /\ UNCHANGED <<mounted, hasMore, view, stats, statsReq, lastResp, newestOk>>

\* handleFiltersChange(newFilters): setFilters(newFilters); the re-render
\* runs the filter effect because a dependency changed
handleFiltersChange ==
  /\ mounted
  /\ FeedShown
  /\ changes < MaxFilterChanges
  /\ \E nf \in NewFilters(filters) : FilterBody(nf)

ViewBody(v) ==
  /\ view' = v
  /\ IF filters.page = 1
       THEN nextId <= MaxRequests /\ loadInitialData(v, filters, 1)
       ELSE UNCHANGED <<loading, articles, storyGroups, inflight, nextId>>
  /\ UNCHANGED <<mounted, hasMore, filters, stats, statsReq, changes, lastResp,
                 newestOk>>

\* the view toggle buttons: setView(v); the filter effect has view among its
\* dependencies
setView ==
  /\ mounted
  /\ FeedShown
  /\ \E v \in {"articles", "stories"} \ {view} : ViewBody(v)

LoadMoreBody ==
  /\ filters' = [filters EXCEPT !.page = filters.page + 1]
  /\ inflight' = inflight \cup {Request(nextId, view, filters, FALSE)}
  /\ nextId' = nextId + 1
  /\ UNCHANGED <<mounted, articles, storyGroups, hasMore, loading, view, stats,
                 statsReq, changes, lastResp, newestOk>>

\* loadMore, the `next` of InfiniteScroll (rendered when not loading, called
\* while hasMore): setFilters(prev => page + 1), then loadArticles() /
\* loadStoryGroups() of the same render, whose filters.page is the old page
loadMore ==
  /\ mounted
  /\ FeedShown
  /\ ~loading
  /\ hasMore
  /\ filters.page < MaxPage
  /\ nextId <= MaxRequests
  /\ LoadMoreBody

\* refreshFunction={loadInitialData} of InfiniteScroll (pull down to refresh)
Refresh ==
  /\ mounted
  /\ FeedShown
  /\ ~loading
  /\ nextId <= MaxRequests
  /\ loadInitialData(view, filters, 1)
  /\ UNCHANGED <<mounted, hasMore, view, filters, stats, statsReq, changes,
                 lastResp, newestOk>>

Published(r, old, items) == IF r.reset THEN items ELSE old \o items

\* the continuation of loadArticles / loadStoryGroups after a response, and
\* for a reset request the finally of loadInitialData
ResolveOkBody(r, items, hm) ==
  /\ inflight' = inflight \ {r}
  /\ articles' = IF r.kind = "articles" THEN Published(r, articles, items)
                                         ELSE articles
  /\ storyGroups' = IF r.kind = "stories" THEN Published(r, storyGroups, items)
                                           ELSE storyGroups
  /\ filters' = IF r.reset THEN [filters EXCEPT !.page = 1] ELSE filters
  /\ hasMore' = hm
  /\ loading' = IF r.reset THEN FALSE ELSE loading
  /\ lastResp' = [id |-> r.id, ok |-> TRUE, items |-> items, hasMore |-> hm,
                  reset |-> r.reset, kind |-> r.kind, params |-> r.params]
  /\ newestOk' = IF r.reset /\ r.id > newestOk.id
                   THEN [id |-> r.id, kind |-> r.kind, params |-> r.params]
                   ELSE newestOk
  /\ UNCHANGED <<mounted, view, stats, statsReq, nextId, changes>>

ResolveOk ==
  \E r \in inflight : \E n \in 0..MaxItems : \E hm \in BOOLEAN :
    ResolveOkBody(r, Items(r, n), hm)

\* a catch block that leaves hasMore as it was
ResolveFailBody_KeepsHasMore(r) ==
  /\ inflight' = inflight \ {r}
  /\ loading' = IF r.reset THEN FALSE ELSE loading
  /\ lastResp' = [id |-> r.id, ok |-> FALSE, items |-> <<>>, hasMore |-> FALSE,
                  reset |-> r.reset, kind |-> r.kind, params |-> r.params]
  /\ UNCHANGED <<mounted, articles, storyGroups, hasMore, view, filters, stats,
                 statsReq, nextId, changes, newestOk>>

\* the catch block of loadArticles / loadStoryGroups
ResolveFailBody(r) ==
  /\ inflight' = inflight \ {r}
  /\ hasMore' = FALSE
  /\ loading' = IF r.reset THEN FALSE ELSE loading
  /\ lastResp' = [id |-> r.id, ok |-> FALSE, items |-> <<>>, hasMore |-> FALSE,
                  reset |-> r.reset, kind |-> r.kind, params |-> r.params]
  /\ UNCHANGED <<mounted, articles, storyGroups, view, filters, stats, statsReq,
                 nextId, changes, newestOk>>

ResolveFail == \E r \in inflight : ResolveFailBody(r)

\* loadStats: setStats(response.data), or the error is logged only
ResolveStatsOk ==
  /\ statsReq = "pending"
  /\ statsReq' = "done"
  /\ \E s \in StatsValues : stats' = s
  /\ UNCHANGED <<mounted, articles, storyGroups, hasMore, loading, view,
                 filters, inflight, nextId, changes, lastResp, newestOk>>

\* a catch block of loadStats that ends infinite scroll as the list ones do
ResolveStatsFail_StopsScroll ==
  /\ statsReq = "pending"
  /\ statsReq' = "failed"
  /\ hasMore' = FALSE
  /\ UNCHANGED <<mounted, articles, storyGroups, loading, view, filters, stats,
                 inflight, nextId, changes, lastResp, newestOk>>

ResolveStatsFail ==
  /\ statsReq = "pending"
  /\ statsReq' = "failed"
  /\ UNCHANGED <<mounted, articles, storyGroups, hasMore, loading, view,
                 filters, stats, inflight, nextId, changes, lastResp, newestOk>>

\* what the paginated feed renders: the skeleton while loading, else the list
\* (with "No articles found" for an empty one); it has no error view
FeedPhase == IF ~mounted THEN "Idle" ELSE IF loading THEN "Loading" ELSE "Ready"

FeedInit ==
  /\ mounted = FALSE
  /\ articles = <<>>
  /\ storyGroups = <<>>
  /\ hasMore = TRUE
  /\ loading = TRUE
  /\ view = "articles"
  /\ filters = InitialFilters
  /\ stats = InitialStats
  /\ inflight = {}
  /\ statsReq = "none"
  /\ nextId = 1
  /\ changes = 0
  /\ lastResp = NoResp
  /\ newestOk = NoReset

\* ======================================================== retrying feed

\* identifiers the remote service may give an article
RemoteIds == {"a1", "story-1"}
RemoteSummaries == {"s1"}

\* an article of the response: id and summary may be missing
RawArticles == [id : RemoteIds \cup {Undefined},
                summary : RemoteSummaries \cup {Undefined}]

SeqsUpTo(S, n) == UNION {[1..k -> S] : k \in 0..n}

\* response.data: an array of articles, or something that is not an array
ResponseData ==
       {[isArray |-> TRUE, items |-> as] : as \in SeqsUpTo(RawArticles, MaxNews)}
  \cup {[isArray |-> FALSE, items |-> <<>>]}

\* Array.isArray(response.data) ? response.data : []
ArrayOf(data) == IF data.isArray THEN data.items ELSE <<>>

\* the entry articles.map builds for the article at 0-based index
\* (timestamp and readingTime are left out: they feed no state transition)
WithSources(a, index) ==
  [id       |-> IF a.id # Undefined THEN a.id
                                    ELSE "story-" \o ToString(index),
   title    |-> IF a.summary # Undefined THEN <<a.summary, "...">>
                                         ELSE <<"undefined", "...">>,
   summary  |-> IF a.summary # Undefined THEN a.summary
                                         ELSE "No summary available",
   sources  |-> <<>>,
   category |-> "General"]

articlesWithSources(as) == [i \in 1..Len(as) |-> WithSources(as[i], i - 1)]

\* what axios rejects with: error.code, error.response?.status (NoStatus
\* when no response came) and navigator.onLine at the time of the catch
Errors ==
       [code : {"ECONNABORTED", "ERR_NETWORK"}, status : {NoStatus},
        online : BOOLEAN]
  \cup [code : {"ERR_BAD_REQUEST"}, status : {404, 429}, online : BOOLEAN]
  \cup [code : {"ERR_BAD_RESPONSE"}, status : {500, 503}, online : BOOLEAN]

MsgDefault   == "Unable to load news articles."
MsgTimeout   == "Request timed out. The server might be starting up."
MsgRateLimit == "Too many requests. Please wait a moment and try again."
MsgServer    == "Server error. Please try again later."
MsgOffline   == "No internet connection. Please check your network."
MsgEmpty     == "No news articles found. Please try again later."

\* the if / else-if chain of the catch block
ErrorMessage(e) ==
  IF e.code = "ECONNABORTED" THEN MsgTimeout
  ELSE IF e.status = 429 THEN MsgRateLimit
  ELSE IF e.status >= 500 THEN MsgServer
  ELSE IF ~e.online THEN MsgOffline
  ELSE MsgDefault

\* the class of the taxonomy a failure belongs to
ErrorClass(e) ==
  IF e.status = 429 THEN "429"
  ELSE IF e.status >= 500 THEN "5xx"
  ELSE IF e.status # NoStatus THEN "4xx"
  ELSE IF e.code = "ECONNABORTED" THEN "timeout"
  ELSE IF ~e.online THEN "offline"
  ELSE "network"

ReqEvent(by) == [t |-> "req", v |-> by]
RespEvent(c) == [t |-> "resp", v |-> c]

\* fetchNews up to its await: setLoading(true); setError(null); axios.get
fetchNews(by) ==
  /\ newsLoading' = TRUE
  /\ error' = NULL
  /\ rInflight' = Append(rInflight, by)
  /\ log' = Append(log, ReqEvent(by))

\* useEffect(() => { fetchNews(); }, [fetchNews]) : fetchNews is memoized on
\* a constant, so the effect runs once
RMount ==
  /\ ~rMounted
  /\ rMounted' = TRUE
  /\ fetchNews("mount")
  /\ UNCHANGED <<news, retryCount>>

\* the views of the render: loading screen, error view, list
RetryOffered == ~newsLoading /\ error # NULL /\ retryCount < maxRetries
RefreshOffered == ~newsLoading /\ error = NULL /\ Len(news) = 0

\* Retry ({maxRetries - retryCount} attempts left)
AttemptsLeft == maxRetries - retryCount

\* handleRetry with the bound off by one (retryCount <= maxRetries)
handleRetry_OffByOne ==
  /\ rMounted
  /\ ~newsLoading /\ error # NULL /\ retryCount <= maxRetries
  /\ retryCount' = retryCount + 1
  /\ fetchNews("retry")
  /\ UNCHANGED <<rMounted, news>>

\* handleRetry, reached through the retry button of the error view
handleRetry ==
  /\ rMounted
  /\ RetryOffered
  /\ IF retryCount < maxRetries
       THEN /\ retryCount' = retryCount + 1
            /\ fetchNews("retry")
       ELSE UNCHANGED <<retryCount, newsLoading, error, rInflight, log>>
  /\ UNCHANGED <<rMounted, news>>

RemoveAt(q, i) == [j \in 1..(Len(q) - 1) |-> IF j < i THEN q[j] ELSE q[j + 1]]

\* a success branch without setRetryCount(0)
FetchOkBody_NoReset(i, data) ==
  /\ rInflight' = RemoveAt(rInflight, i)
  /\ IF Len(ArrayOf(data)) = 0
       THEN /\ error' = MsgEmpty
            /\ log' = Append(log, RespEvent("empty"))
            /\ UNCHANGED news
       ELSE /\ news' = articlesWithSources(ArrayOf(data))
            /\ log' = Append(log, RespEvent("ok"))
            /\ UNCHANGED error
  /\ newsLoading' = FALSE
  /\ UNCHANGED <<rMounted, retryCount>>

\* fetchNews after a response: the empty-result branch, or the map and
\* setNews / setRetryCount(0); setLoading(false) in the finally
FetchOkBody(i, data) ==
  /\ rInflight' = RemoveAt(rInflight, i)
  /\ IF Len(ArrayOf(data)) = 0
       THEN /\ error' = MsgEmpty
            /\ log' = Append(log, RespEvent("empty"))
            /\ UNCHANGED <<news, retryCount>>
       ELSE /\ news' = articlesWithSources(ArrayOf(data))
            /\ retryCount' = 0
            /\ log' = Append(log, RespEvent("ok"))
            /\ UNCHANGED error
  /\ newsLoading' = FALSE
  /\ UNCHANGED rMounted

FetchOk ==
  \E i \in 1..Len(rInflight) : \E data \in ResponseData : FetchOkBody(i, data)

\* a catch block that fetches again by itself after a failure of class c
FetchFailRetrying(i, e, c) ==
  /\ error' = IF ErrorClass(e) = c THEN NULL ELSE ErrorMessage(e)
  /\ newsLoading' = (ErrorClass(e) = c)
  /\ rInflight' = IF ErrorClass(e) = c
                    THEN Append(RemoveAt(rInflight, i), "auto")
                    ELSE RemoveAt(rInflight, i)
  /\ log' = IF ErrorClass(e) = c
              THEN log \o <<RespEvent(ErrorClass(e)), ReqEvent("auto")>>
              ELSE Append(log, RespEvent(ErrorClass(e)))
  /\ retryCount' = IF ErrorClass(e) = c THEN retryCount + 1 ELSE retryCount
  /\ UNCHANGED <<rMounted, news>>

FetchFailBody_AutoRetry5xx(i, e) ==
  IF retryCount < maxRetries
    THEN FetchFailRetrying(i, e, "5xx")
    ELSE FetchFailRetrying(i, e, "none")

FetchFailBody_AutoRetry429(i, e) ==
  IF retryCount < maxRetries
    THEN FetchFailRetrying(i, e, "429")
    ELSE FetchFailRetrying(i, e, "none")

\* the catch block of fetchNews and its finally
FetchFailBody(i, e) ==
  /\ rInflight' = RemoveAt(rInflight, i)
  /\ error' = ErrorMessage(e)
  /\ newsLoading' = FALSE
  /\ log' = Append(log, RespEvent(ErrorClass(e)))
  /\ UNCHANGED <<rMounted, news, retryCount>>

FetchFail ==
  \E i \in 1..Len(rInflight) : \E e \in Errors : FetchFailBody(i, e)

\* The "Refresh Feed" button (lines 585-591) is rendered under RefreshOffered,
\* which no reachable state satisfies; it therefore has no action here.

RetryNext ==
  \/ RMount
  \/ handleRetry
  \/ FetchOk
  \/ FetchFail


RetryInit ==
  /\ rMounted = FALSE
  /\ news = <<>>
  /\ newsLoading = TRUE
  /\ error = NULL
  /\ retryCount = 0
  /\ rInflight = <<>>
  /\ log = <<>>

LiveInit == hung = {}

StoryInit ==
  /\ selectedStory = NoStory
  /\ detail = <<>>
  /\ detailFailed = FALSE

\* CompareCoverage is not rendered
NoCoverage == [none |-> TRUE]

CoverageInit == coverage = NoCoverage

\* no fetch cycle has run: nothing to enrich
EnrichInit ==
  /\ enriched = <<>>
  /\ progress = [current |-> 0, total |-> 0]
  /\ calls = {}
  /\ feedError = NULL

\* before the provider is rendered: nothing stored under 'twosides-theme',
\* no data-theme attribute on the document
ThemeInit ==
  /\ themeMounted = FALSE
  /\ theme = Undefined
  /\ storage = Absent
  /\ systemDark = FALSE
  /\ docTheme = Absent

\* no story has been selected
SelectInit == latestCmd = NoStory

Init ==
  /\ FeedInit
  /\ RetryInit
  /\ LiveInit
  /\ StoryInit
  /\ CoverageInit
  /\ EnrichInit
  /\ ThemeInit
  /\ SelectInit

FeedNext ==
  \/ Mount
  \/ handleFiltersChange
  \/ setView
  \/ loadMore
  \/ Refresh
  \/ ResolveOk
  \/ ResolveFail
  \/ ResolveStatsOk
  \/ ResolveStatsFail

Next == FeedNext /\ UNCHANGED <<retryVars, liveVars, storyVars, coverageVars, enrichVars, themeVars, selectVars>>

Spec == Init /\ [][Next]_vars

NextRetry == RetryNext /\ UNCHANGED <<feedVars, liveVars, storyVars, coverageVars, enrichVars, themeVars, selectVars>>

SpecRetry == Init /\ [][NextRetry]_vars

\* -------------------------------------------------------- story detail

\* response.data of GET /api/news/stories/{id}
StoryDetail(storyId) == [storyGroup |-> storyId]

\* handleStoryClick(storyGroup._id), the compare-coverage button of a story
\* card: the request goes out; no state is set before the await
ClickBody(storyId) ==
  /\ detail' = Append(detail, storyId)
  /\ UNCHANGED <<selectedStory, detailFailed>>

handleStoryClick ==
  /\ mounted
  /\ FeedShown
  /\ ~loading
  /\ view = "stories"
  /\ Len(detail) < MaxDetail
  /\ \E i \in 1..Len(storyGroups) : ClickBody(storyGroups[i])

\* the detail requests in flight without the i-th
Without(q, i) == [j \in 1..(Len(q) - 1) |-> IF j < i THEN q[j] ELSE q[j + 1]]

\* setSelectedStory(response.data)
DetailOkBody(i) ==
  /\ detail' = Without(detail, i)
  /\ selectedStory' = StoryDetail(detail[i])
  /\ detailFailed' = FALSE

DetailOk == \E i \in 1..Len(detail) : DetailOkBody(i)

\* a catch block that closes the comparison view
DetailFailBody_Clears(i) ==
  /\ detail' = Without(detail, i)
  /\ selectedStory' = NoStory
  /\ detailFailed' = TRUE

\* the catch block of handleStoryClick: the error is logged only
DetailFailBody(i) ==
  /\ detail' = Without(detail, i)
  /\ detailFailed' = TRUE
  /\ UNCHANGED selectedStory

DetailFail == \E i \in 1..Len(detail) : DetailFailBody(i)

\* onClose={() => setSelectedStory(null)} of CompareCoverage
clearSelection ==
  /\ ~FeedShown
  /\ selectedStory' = NoStory
  /\ UNCHANGED <<detail, detailFailed>>

StoryNext ==
  \/ handleStoryClick
  \/ DetailOk
  \/ DetailFail
  \/ clearSelection

\* the feed handlers that send list requests, and the list responses; the
\* stats card and the refresh button play no part in story selection
StoryFeedNext ==
  \/ Mount
  \/ handleFiltersChange
  \/ setView
  \/ loadMore
  \/ ResolveOk
  \/ ResolveFail

NextStory ==
  \/ StoryFeedNext /\ UNCHANGED <<retryVars, liveVars, storyVars, coverageVars, enrichVars, themeVars, selectVars>>
  \/ StoryNext /\ UNCHANGED <<feedVars, retryVars, liveVars, coverageVars, enrichVars, themeVars, selectVars>>

SpecStory == Init /\ [][NextStory]_vars

\* ------------------------------------------------------ comparison view

\* the perspectives a story can be covered from, and the bias labels an
\* article can carry
Biases == {"left", "center", "right"}
BiasLabels == Biases \cup {"unknown"}

\* a story group's constituent articles, each given by its bias label
Groups == SeqsUpTo(BiasLabels, MaxGroup)

\* the positions of the articles of g that carry label b, in order
ArticlesWith(g, b) ==
  SelectSeq([i \in 1..Len(g) |-> i], LAMBDA i : g[i] = b)

\* Story Aggregator: counts per perspective; an "unknown" article belongs
\* to the group but to no perspective
biasDistribution(g) == [b \in Biases |-> Len(ArticlesWith(g, b))]

\* Story Aggregator: count[bias] == 0
missingBiases(g) == [b \in Biases |-> biasDistribution(g)[b] = 0]

\* Story Aggregator: the group's articles nested by perspective
articlesByBias(g) == [b \in Biases |-> ArticlesWith(g, b)]

\* the body of GET /api/news/stories/{id}
StoryResponse(g) ==
  [storyGroup |-> [articles |-> g, biasDistribution |-> biasDistribution(g)],
   articlesByBias |-> articlesByBias(g),
   missingBiases |-> missingBiases(g)]

\* "{storyGroup.articles.length} sources analyzed"
TotalSources(story) == Len(story.storyGroup.articles)

\* an overview that prints the left count under Right as well
BiasOverview_RightShowsLeft(story) ==
  [b \in Biases |->
     story.storyGroup.biasDistribution[IF b = "right" THEN "left" ELSE b]]

\* Coverage Distribution: Left / Center / Right of storyGroup.biasDistribution
BiasOverview(story) == [b \in Biases |-> story.storyGroup.biasDistribution[b]]

\* the alert is rendered when some flag is set
AlertShown(story) == \E b \in Biases : story.missingBiases[b]

\* an alert that names Right-leaning from the center flag
AlertNames_RightFromCenter(story) ==
  {b \in Biases : story.missingBiases[IF b = "right" THEN "center" ELSE b]}

\* [missingBiases.left && ..., ...].filter(Boolean): the perspectives the
\* alert names (none when it is not rendered)
AlertNames(story) == {b \in Biases : story.missingBiases[b]}

\* renderBiasColumn: the "No ... Coverage Found" placeholder is rendered
\* when the column has no article
ColumnEmpty(story, b) == ~(Len(story.articlesByBias[b]) > 0)

\* <CompareCoverage story={...}/> with the detail of some story group
showCoverage ==
  /\ coverage = NoCoverage
  /\ \E g \in Groups : coverage' = StoryResponse(g)

\* the back button: onClose
closeCoverage ==
  /\ coverage # NoCoverage
  /\ coverage' = NoCoverage

CoverageNext == showCoverage \/ closeCoverage

NextCoverage ==
  CoverageNext /\ UNCHANGED <<feedVars, retryVars, liveVars, storyVars, enrichVars, themeVars, selectVars>>

SpecCoverage == Init /\ [][NextCoverage]_vars

\* -------------------------------------------------- enrichment pipeline

\* the summary of an article that has not been enriched yet
Pending == "pending"

\* the summary POST /api/analyze returns
RealSummary == "summary"

\* the classes of a summarization error, and the fixed text each degrades to
EnrichErrors == {"insufficient", "rateLimited", "server", "generic"}

Sentinel(e) ==
  CASE e = "insufficient" -> "sentinel: insufficient content"
    [] e = "rateLimited"  -> "sentinel: rate limited"
    [] e = "server"       -> "sentinel: server error"
    [] OTHER              -> "sentinel: unavailable"

Sentinels == {Sentinel(e) : e \in EnrichErrors}

\* n fetched articles lacking a summary, in source order
Batch(n) == [i \in 1..n |-> [id |-> i, summary |-> Pending]]

\* the pipeline has nothing left to do
PipelineIdle == calls = {} /\ progress.current = progress.total

\* a fetch cycle that keeps the previous cycle's count
StartCycle_KeepsCount(n) ==
  /\ enriched' = Batch(n)
  /\ progress' = [current |-> progress.current, total |-> n]
  /\ calls' = {}
  /\ feedError' = NULL

\* a fetch cycle delivers n articles: the progress counter is reset
StartCycle(n) ==
  /\ enriched' = Batch(n)
  /\ progress' = [current |-> 0, total |-> n]
  /\ calls' = {}
  /\ feedError' = NULL

FetchCycleOk ==
  /\ PipelineIdle
  /\ \E n \in 0..MaxBatch : StartCycle(n)

\* a fetch cycle fails: the feed is in its error state, nothing to enrich
FetchCycleFail ==
  /\ PipelineIdle
  /\ enriched' = <<>>
  /\ progress' = [current |-> 0, total |-> 0]
  /\ calls' = {}
  /\ feedError' = MsgDefault

\* the items whose call has not been issued yet
Unissued == {i \in 1..Len(enriched) : i > progress.current /\ i \notin calls}

\* a pipeline that issues the next call without waiting for the last
IssueBody_NoWait ==
  /\ Unissued # {}
  /\ calls' = calls \cup {CHOOSE i \in Unissued : \A j \in Unissued : i <= j}
  /\ UNCHANGED <<enriched, progress, feedError>>

\* the next item's call is issued once the previous item has completed
IssueBody ==
  /\ calls = {}
  /\ progress.current < progress.total
  /\ calls' = {progress.current + 1}
  /\ UNCHANGED <<enriched, progress, feedError>>

IssueCall == IssueBody

\* item i completes with summary s: written at position i, counted, published
Complete(i, s) ==
  /\ enriched' = [enriched EXCEPT ![i].summary = s]
  /\ progress' = [progress EXCEPT !.current = @ + 1]
  /\ calls' = calls \ {i}
  /\ UNCHANGED feedError

CallOk == \E i \in calls : Complete(i, RealSummary)

\* a failed item that is neither written nor counted
CallFailBody_Dropped(i, e) ==
  /\ calls' = calls \ {i}
  /\ UNCHANGED <<enriched, progress, feedError>>

\* a summarization error degrades to the sentinel of its class
CallFailBody(i, e) == Complete(i, Sentinel(e))

CallFail == \E i \in calls : \E e \in EnrichErrors : CallFailBody(i, e)

EnrichNext ==
  \/ FetchCycleOk
  \/ FetchCycleFail
  \/ IssueCall
  \/ CallOk
  \/ CallFail

NextEnrich ==
  EnrichNext /\ UNCHANGED <<feedVars, retryVars, liveVars, storyVars, coverageVars, themeVars, selectVars>>

SpecEnrich == Init /\ [][NextEnrich]_vars

\* every network call carries a timeout, so a call in flight completes, and
\* the pipeline goes on to the next item after its delay
IssueStep ==
  IssueCall /\ UNCHANGED <<feedVars, retryVars, liveVars, storyVars, coverageVars, themeVars, selectVars>>

CallDone ==
  (CallOk \/ CallFail)
    /\ UNCHANGED <<feedVars, retryVars, liveVars, storyVars, coverageVars, themeVars, selectVars>>

SpecEnrichLive ==
  Init /\ [][NextEnrich]_vars /\ WF_vars(IssueStep) /\ WF_vars(CallDone)

\* ------------------------------------------------------ theme preference

\* window.matchMedia('(prefers-color-scheme: dark)').matches ? 'dark' : 'light'
SystemTheme(dark) == IF dark THEN "dark" ELSE "light"

\* if (saved): null and the empty string are falsy
Truthy(v) == v # Absent /\ v # ""

\* the initializer of useState: the stored value, else the system preference
InitialTheme(saved, dark) == IF Truthy(saved) THEN saved ELSE SystemTheme(dark)

\* the effect on [theme]: data-theme attribute and localStorage.setItem
ApplyTheme(t) ==
  /\ docTheme' = t
  /\ storage' = t

\* first render of ThemeProvider and its effects
ThemeMount ==
  /\ ~themeMounted
  /\ themeMounted' = TRUE
  /\ theme' = InitialTheme(storage, systemDark)
  /\ ApplyTheme(InitialTheme(storage, systemDark))
  /\ UNCHANGED systemDark

\* a toggle whose new theme is applied to the document but never stored
toggleTheme_NotPersisted ==
  /\ themeMounted
  /\ theme' = (IF theme = "light" THEN "dark" ELSE "light")
  /\ docTheme' = theme'
  /\ UNCHANGED <<themeMounted, storage, systemDark>>

\* toggleTheme, then the re-render and the effect on [theme]
toggleTheme ==
  /\ themeMounted
  /\ theme' = (IF theme = "light" THEN "dark" ELSE "light")
  /\ ApplyTheme(theme')
  /\ UNCHANGED <<themeMounted, systemDark>>

\* the system preference changes; handleChange, the media query listener,
\* runs while the provider is mounted
handleChange ==
  /\ systemDark' = ~systemDark
  /\ IF themeMounted /\ ~Truthy(storage)
       THEN /\ theme' = SystemTheme(systemDark')
            /\ ApplyTheme(theme')
       ELSE UNCHANGED <<theme, storage, docTheme>>
  /\ UNCHANGED themeMounted

\* the page is closed: the component state is gone, the storage stays
ThemeUnmount ==
  /\ themeMounted
  /\ themeMounted' = FALSE
  /\ theme' = Undefined
  /\ docTheme' = Absent
  /\ UNCHANGED <<storage, systemDark>>

ThemeNext ==
  \/ ThemeMount
  \/ toggleTheme
  \/ handleChange
  \/ ThemeUnmount

\* App: <ThemeProvider> wraps the feed, so both mount together and a closed
\* page takes the feed's state with it
AppMount == ThemeMount /\ RMount

\* the retrying feed of the next page load starts from its initial state
RetryReset ==
  /\ rMounted' = FALSE
  /\ news' = <<>>
  /\ newsLoading' = TRUE
  /\ error' = NULL
  /\ retryCount' = 0
  /\ rInflight' = <<>>
  /\ log' = <<>>

AppUnmount == ThemeUnmount /\ RetryReset

AppFeedNext ==
  /\ themeMounted
  /\ (handleRetry \/ FetchOk \/ FetchFail)

NextTheme ==
  \/ AppMount /\ UNCHANGED <<feedVars, liveVars, storyVars, coverageVars, enrichVars, selectVars>>
  \/ AppUnmount /\ UNCHANGED <<feedVars, liveVars, storyVars, coverageVars, enrichVars, selectVars>>
  \/ (toggleTheme \/ handleChange)
       /\ UNCHANGED <<feedVars, retryVars, liveVars, storyVars, coverageVars, enrichVars, selectVars>>
  \/ AppFeedNext
       /\ UNCHANGED <<feedVars, liveVars, storyVars, coverageVars, enrichVars, themeVars, selectVars>>

SpecTheme == Init /\ [][NextTheme]_vars

\* ------------------------------------------------- selection commands

\* the story-detail steps, with the latest command of the consumer recorded:
\* the story of the last selectStory, or none after clearSelection
SelectNext ==
  \/ handleStoryClick /\ latestCmd' = detail'[Len(detail')]
  \/ clearSelection /\ latestCmd' = NoStory
  \/ (DetailOk \/ DetailFail) /\ UNCHANGED latestCmd

NextSelect ==
  \/ StoryFeedNext
       /\ UNCHANGED <<retryVars, liveVars, storyVars, coverageVars, enrichVars,
                      themeVars, selectVars>>
  \/ SelectNext
       /\ UNCHANGED <<feedVars, retryVars, liveVars, coverageVars, enrichVars,
                      themeVars>>

SpecSelect == Init /\ [][NextSelect]_vars

\* ----------------------------------------------------------- liveness

\* axios.get(url) of loadArticles / loadStoryGroups is called without a
\* timeout option: a request the service never answers never settles
Hang ==
  \E r \in inflight :
    /\ inflight' = inflight \ {r}
    /\ hung' = hung \cup {r}
    /\ UNCHANGED <<mounted, articles, storyGroups, hasMore, loading, view,
                   filters, stats, statsReq, nextId, changes, lastResp,
                   newestOk>>

NextLive ==
  \/ FeedNext /\ UNCHANGED <<retryVars, liveVars, storyVars, coverageVars, enrichVars, themeVars, selectVars>>
  \/ Hang /\ UNCHANGED <<retryVars, storyVars, coverageVars, enrichVars, themeVars, selectVars>>

\* what the runtime guarantees: the component mounts, and the continuation
\* of a request runs once the service has answered it
MountStep == Mount /\ UNCHANGED <<retryVars, liveVars, storyVars, coverageVars, enrichVars, themeVars, selectVars>>
Delivery ==
  (ResolveOk \/ ResolveFail) /\ UNCHANGED <<retryVars, liveVars, storyVars, coverageVars, enrichVars, themeVars, selectVars>>

SpecLive ==
  Init /\ [][NextLive]_vars /\ WF_vars(MountStep) /\ WF_vars(Delivery)

\* ============================================================== claims

\* the list a request of the given kind publishes into
ListOf(kind, as, sg) == IF kind = "articles" THEN as ELSE sg

\* a response was delivered in this step
Resolved == lastResp'.id # lastResp.id

\* C1: whenever a filter change alters a field other than page, the
\* resulting page cursor is 1.
C1_PageResetOnFilterChange ==
  [][NonPage(filters') # NonPage(filters) => filters'.page = 1]_vars

\* C2: a change to a filter field other than page starts a fresh request for
\* page 1 under the new filters, and a resolving page-1 reload publishes
\* exactly the items of its response.
C2_FilterChangeReloads ==
  [][/\ NonPage(filters') # NonPage(filters) =>
          \E r \in inflight' \ inflight :
             r = Request(r.id, view', [filters' EXCEPT !.page = 1], TRUE)
     /\ (Resolved /\ lastResp'.ok /\ lastResp'.reset) =>
          ListOf(lastResp'.kind, articles', storyGroups') = lastResp'.items
    ]_vars

\* C3: a loadMore made at page cursor p with list L requests page p + 1 under
\* the current filters, and its response is appended to L.
C3_LoadMoreAppendsNextPage ==
  [][/\ \A r \in inflight' \ inflight :
          ~r.reset =>
             r.params = Request(r.id, view,
                                [filters EXCEPT !.page = filters.page + 1],
                                FALSE).params
     /\ (Resolved /\ lastResp'.ok /\ ~lastResp'.reset) =>
          ListOf(lastResp'.kind, articles', storyGroups')
            = ListOf(lastResp'.kind, articles, storyGroups) \o lastResp'.items
    ]_vars

\* C4: the response of a list request that was superseded by a request for
\* other filters which has already resolved is not applied to the published
\* list or to hasMore.
C4_StaleResponseDiscarded ==
  [][(/\ Resolved
      /\ lastResp'.id < newestOk.id
      /\ lastResp'.kind = newestOk.kind
      /\ lastResp'.params # newestOk.params) =>
        UNCHANGED <<articles, storyGroups, hasMore>>
    ]_vars

\* C5: switching the view clears both lists, resets the page cursor to 1 and
\* starts a loading cycle against the endpoint of the new view.
C5_ViewSwitchResets ==
  [][view' # view =>
        /\ articles' = <<>>
        /\ storyGroups' = <<>>
        /\ filters'.page = 1
        /\ loading'
        /\ \E r \in inflight' \ inflight :
              r.reset /\ r.url = Endpoint(view') /\ r.params.page = 1
    ]_vars

\* ------------------------------------------------- retrying feed claims

Retry == ReqEvent("retry")
Is5xx(ev) == ev = RespEvent("5xx")
Responses(l) == {i \in DOMAIN l : l[i].t = "resp"}
Retries(l) == Cardinality({i \in DOMAIN l : l[i] = Retry})
All5xx(l) == \A i \in Responses(l) : Is5xx(l[i])
LastIs(l, ev) == Len(l) > 0 /\ l[Len(l)] = ev
LastIsFailure(l) ==
  Len(l) > 0 /\ l[Len(l)].t = "resp" /\ l[Len(l)].v \notin {"ok", "empty"}
AtRestInError == ~newsLoading /\ error # NULL /\ Len(rInflight) = 0
NoCommandOffered == ~RetryOffered /\ ~RefreshOffered

\* C6: while every response has been a 5xx, at most 3 retries are made after
\* the initial request; after the fourth 5xx the feed rests in an error state
\* that offers no command, and that state is reached only after exactly 3
\* retries.
C6_RetryBound ==
  All5xx(log) =>
    /\ Retries(log) <= 3
    /\ (Cardinality(Responses(log)) = 4) =>
          AtRestInError /\ error = MsgServer /\ NoCommandOffered
    /\ (LastIs(log, RespEvent("5xx")) /\ NoCommandOffered) => Retries(log) = 3

C6_Witness ==
  /\ All5xx(log)
  /\ Cardinality(Responses(log)) = 4
  /\ Retries(log) = 3
  /\ AtRestInError
  /\ NoCommandOffered

C8_NoAutoRetry ==
  /\ LastIs(log, RespEvent("429")) => AtRestInError /\ error = MsgRateLimit
  /\ LastIsFailure(log) => AtRestInError
  /\ \A i \in Responses(log) :
        (i < Len(log) /\ log[i].v \notin {"ok", "empty"}) => log[i + 1] = Retry

C8_Witness ==
  \E i \in Responses(log) :
     /\ log[i] = RespEvent("429")
     /\ i < Len(log)
     /\ log[i + 1] = Retry

\* C9: a well-formed response with zero articles ends the fetch cycle in the
\* Ready state with an empty result: error null, loading false.
C9_EmptyResultIsReady ==
  LastIs(log, RespEvent("empty")) =>
     error = NULL /\ ~newsLoading /\ Len(news) = 0

\* C10: a list-level fetch cycle that fails leaves Loading for the Error
\* state, one that succeeds leaves it for Ready, and a failed cycle never
\* ends in Ready with an empty list.
C10_FeedStateMachine ==
  [][(Resolved /\ lastResp'.reset) =>
        IF lastResp'.ok
          THEN FeedPhase' = "Ready"
          ELSE /\ FeedPhase' = "Error"
               /\ ~(FeedPhase' = "Ready"
                    /\ ListOf(lastResp'.kind, articles', storyGroups') = <<>>)
    ]_vars

\* ------------------------------------------------------ claims C11-C20

\* C11: every state in which the loading flag is true is eventually followed
\* by one in which it is false.
C11_LoadingTransient == loading ~> ~loading

C13_SearchDebounced ==
  [][/\ filters'.search # filters.search => inflight' = inflight
     /\ (/\ NonPage(filters') # NonPage(filters)
         /\ filters'.search = filters.search) => inflight' # inflight
    ]_vars

\* C14: a failure of the stats request changes nothing in the published feed
\* state (lists, hasMore, loading, filters, view, pending list requests) nor
\* the stats value held before.
C14_StatsFailureSwallowed ==
  [][(statsReq' = "failed" /\ statsReq # "failed") =>
        /\ UNCHANGED <<articles, storyGroups, hasMore, loading, filters, view,
                       stats, inflight>>
        /\ FeedPhase' = FeedPhase
    ]_vars

C14_Witness == statsReq = "failed" /\ stats = InitialStats /\ mounted

\* C15: a detail request is sent only by handleStoryClick, in a step that
\* is no filter, page or view change; sending it and its success or failure
\* leave lists, filters (page included), hasMore, loading and the pending
\* list requests unchanged; a failure leaves the selected story unchanged.
C15_DetailIndependent ==
  [][/\ (detail' # detail \/ detailFailed' # detailFailed) =>
          UNCHANGED <<articles, storyGroups, filters, view, hasMore, loading,
                      inflight>>
     /\ Len(detail') > Len(detail) =>
          /\ FeedShown /\ view = "stories"
          /\ \E i \in 1..Len(storyGroups) :
                detail' = Append(detail, storyGroups[i])
     /\ (Len(detail') < Len(detail) /\ detailFailed' = TRUE) =>
          selectedStory' = selectedStory
    ]_vars

C15_Witness ==
  /\ detailFailed
  /\ selectedStory # NoStory
  /\ Len(storyGroups) > 0

Labelled(l) ==
  Cardinality({i \in 1..TotalSources(coverage) :
                 coverage.storyGroup.articles[i] = l})

C17_MissingIffEmpty ==
  coverage # NoCoverage =>
    \A b \in Biases :
      /\ coverage.missingBiases[b] <=> Labelled(b) = 0
      /\ b \in AlertNames(coverage) <=> ColumnEmpty(coverage, b)
      /\ AlertShown(coverage) <=> AlertNames(coverage) # {}

C17_Witness ==
  /\ coverage # NoCoverage
  /\ coverage.storyGroup.articles = <<"left", "left">>
  /\ AlertNames(coverage) = {"center", "right"}
  /\ ColumnEmpty(coverage, "center") /\ ~ColumnEmpty(coverage, "left")

\* the steps of one fetch batch, and the steps that start a fetch cycle
BatchStep == IssueCall \/ CallOk \/ CallFail
CycleStart == FetchCycleOk \/ FetchCycleFail

\* C18: 0 <= progress.current <= progress.total always; progress.total does
\* not change during a fetch batch; the counter is reset to 0 at the start
\* of every fetch cycle.
C18_ProgressInvariant ==
  [][/\ 0 <= progress.current /\ progress.current <= progress.total
     /\ 0 <= progress'.current /\ progress'.current <= progress'.total
     /\ BatchStep => progress'.total = progress.total
     /\ CycleStart => progress'.current = 0
    ]_vars

C18_Witness ==
  /\ progress.total = MaxBatch
  /\ progress.current = 0
  /\ \E i \in 1..Len(enriched) : enriched[i].summary = Pending
  /\ calls # {}

\* every item of the batch has been processed
Completed ==
  /\ progress.current = Len(enriched)
  /\ progress.total = Len(enriched)
  /\ \A i \in 1..Len(enriched) : enriched[i].summary # Pending

\* the step writes a sentinel: a per-item failure
ItemFailed ==
  \E i \in 1..Len(enriched) :
    /\ Len(enriched') = Len(enriched)
    /\ enriched[i].summary = Pending
    /\ enriched'[i].summary \in Sentinels

\* C19: a batch of N articles is always enriched to completion, with
\* progress.current = N = progress.total and no summary left pending,
\* whichever calls fail; a per-item failure leaves the feed's error alone.
C19_EnrichmentCompletes ==
  /\ \A n \in 0..MaxBatch :
       (Len(enriched) = n /\ progress.total = n)
         ~> (Completed /\ Len(enriched) = n)
  /\ [][(ItemFailed \/ calls' # calls) => feedError' = feedError]_vars

C19_Witness ==
  /\ Completed
  /\ Len(enriched) = MaxBatch
  /\ feedError = NULL
  /\ \E i \in 1..Len(enriched) : enriched[i].summary \in Sentinels
  /\ \E i \in 1..Len(enriched) : enriched[i].summary = RealSummary

\* C20: never two summarization calls in flight; the call for an item is
\* issued only after every earlier item has completed; a completed call
\* writes its item's summary at the item's position and nowhere else.
C20_SequentialInOrder ==
  [][/\ Cardinality(calls) <= 1 /\ Cardinality(calls') <= 1
     /\ \A i \in calls' \ calls :
          \A j \in 1..(i - 1) : enriched[j].summary # Pending
     /\ \A i \in calls \ calls' :
          /\ enriched'[i].summary # Pending
          /\ enriched'[i].id = enriched[i].id
          /\ \A j \in 1..Len(enriched) : j # i => enriched'[j] = enriched[j]
    ]_vars

C20_Witness ==
  /\ Len(enriched) = MaxBatch
  /\ calls = {MaxBatch}
  /\ \E i \in 1..(MaxBatch - 1) : enriched[i].summary \in Sentinels

\* ------------------------------------------------------ claims C21-C26

\* the classes of the error taxonomy that a failed fetch can belong to
TaxonomyClasses == {"timeout", "429", "5xx", "offline", "4xx"}

\* C21: the message shown after a failure of one class of the taxonomy is
\* shown for no failure of another class, whatever the error code, the
\* response status and the connectivity flag.
C21_DistinctMessages ==
  \A c \in TaxonomyClasses :
    (AtRestInError /\ LastIs(log, RespEvent(c))) =>
      \A e \in Errors :
        (ErrorClass(e) \in TaxonomyClasses /\ ErrorClass(e) # c) =>
          ErrorMessage(e) # error

\* C22: the theme a provider starts with is the stored value when there is
\* one, otherwise the system preference; after every toggleTheme, and in
\* every state in which the provider is mounted, the stored value is the
\* current theme.
C22_ThemePersisted ==
  [][/\ themeMounted' => storage' = theme' /\ docTheme' = theme'
     /\ (~themeMounted /\ themeMounted') =>
          theme' = (IF storage # Absent THEN storage
                    ELSE IF systemDark THEN "dark" ELSE "light")
     /\ (themeMounted /\ themeMounted' /\ theme' # theme) =>
          storage' = theme' /\ storage' # storage
    ]_vars

C22_Witness ==
  /\ themeMounted
  /\ theme = "dark"
  /\ storage = "dark"
  /\ ~systemDark
  /\ Len(news) > 0

\* no two entries of the list share an identifier
UniqueIds(l) == \A i, j \in 1..Len(l) : l[i].id = l[j].id => i = j

\* the articles of the response that carry an identifier carry distinct ones
RemoteIdsDistinct(as) ==
  \A i, j \in 1..Len(as) :
    (as[i].id # Undefined /\ as[i].id = as[j].id) => i = j

\* C23: the list published from one response has no two entries with the
\* same identifier, index-based fallback identifiers included, whenever the
\* identifiers the response itself carries are distinct.
C23_UniqueIds ==
  \A data \in ResponseData :
    (/\ Len(news) > 0
     /\ news = articlesWithSources(ArrayOf(data))
     /\ RemoteIdsDistinct(ArrayOf(data))) => UniqueIds(news)

\* C24: in the paginated feed the loading flag is false only when no
\* loadInitialData cycle is in flight.
C24_LoadingCoversCycles ==
  (mounted /\ ~loading) => \A r \in inflight : ~r.reset

\* C25: after clearSelection no story is selected until the next
\* selectStory, whatever responses arrive; and once no detail request is in
\* flight, the story shown is the one selected last.
C25_LatestSelectionWins ==
  /\ latestCmd = NoStory => selectedStory = NoStory
  /\ (selectedStory # NoStory /\ Len(detail) = 0) =>
        selectedStory = StoryDetail(latestCmd)

\* C26: retryCount stays within 0..maxRetries; it grows only by one, in a
\* step of handleRetry that sends a retry request while retryCount is below
\* maxRetries; every fetch that succeeds with a non-empty result sets it to
\* 0; the retry control is offered exactly when an error is present and
\* retryCount is below maxRetries, and then shows maxRetries - retryCount,
\* at least one, attempts left.
C26_RetryCountDiscipline ==
  [][/\ retryCount \in 0..maxRetries /\ retryCount' \in 0..maxRetries
     /\ retryCount' > retryCount =>
          /\ retryCount' = retryCount + 1
          /\ log' = Append(log, Retry)
     /\ (Len(log') > Len(log) /\ LastIs(log', Retry)) =>
          /\ retryCount < maxRetries
          /\ retryCount' = retryCount + 1
     /\ (Len(log') > Len(log) /\ LastIs(log', RespEvent("ok"))) =>
          retryCount' = 0
     /\ RetryOffered' <=> (error' # NULL /\ retryCount' < maxRetries)
     /\ RetryOffered' => (AttemptsLeft' \in 1..maxRetries
                            /\ AttemptsLeft' + retryCount' = maxRetries)
    ]_vars

C26_Witness ==
  /\ Retries(log) = 2
  /\ LastIs(log, RespEvent("ok"))
  /\ retryCount = 0
  /\ Len(news) > 0

====
